---- MODULE Spec2Model ----
(***************************************************************************)
(* A model of the CrewAI investment-analysis pipeline of this repository:  *)
(* the orchestrator (src/orchestrator.py), the aggregation of the stage    *)
(* outputs (combine_results), and the text extraction of the Investment    *)
(* Summary stage (src/investment_summary_agent.py).                        *)
(*                                                                         *)
(* Python values are tagged records.  A Python str is the sequence of the  *)
(* lexemes of its content (braces, colons, commas, double-quoted literals, *)
(* runs of prose), with the white space between lexemes left out: every    *)
(* regular expression of the source allows \s* between the lexemes it      *)
(* names.                                                                  *)
(***************************************************************************)
EXTENDS Integers, Sequences, FiniteSets, TLC

VARIABLES
    pc,             \* position of the calling thread
    agent_configs,  \* self.agent_configs
    files,          \* the module files present in the working directory
    pitch_id,       \* orchestrate's arguments
    investor_id,
    context,        \* the shared context dictionary
    worker,         \* the futures of the parallel level
    collected,      \* futures the result-collection loop has handled
    seq_i,          \* index of the sequential stage being run
    last_output,    \* run_sequential_agents' last_output
    calls,          \* handler invocations so far: <<stage name, argument>>
    failed,         \* names of the stages whose invocation has raised
    functions,      \* the module files that define their stage's function
    written,        \* context writes of the stage loops: <<stage name, key>>
    cli,            \* the command line run: arguments, typed lines, prompts, exit code
    combine_calls,  \* number of combine_results calls
    ret,            \* the outcome of the call under study
    store,          \* the persistent store: the columns written
    now,            \* the wall clock, in seconds
    reports,        \* results of the combine_results calls of the aggregation runs
    raw_text,       \* the text returned by the analysis service
    extracted       \* what the extraction made of raw_text

vars == <<pc, agent_configs, files, pitch_id, investor_id, context, worker,
          collected, seq_i, last_output, calls, failed, combine_calls, ret, store,
          now, reports, raw_text, extracted, functions, written, cli>>

(***************************************************************************)
(* Bounds of the model.                                                    *)
(***************************************************************************)
MaxClock == 2          \* seconds the clock can advance
MaxCombineCalls == 2   \* combine_results calls of one aggregation run
MaxTextLen == 3        \* lexemes of the texts enumerated for the extraction

(***************************************************************************)
(* Python values.                                                          *)
(***************************************************************************)
None == [t |-> "none"]
Str(toks) == [t |-> "str", s |-> toks]
Num(n) == [t |-> "num", n |-> n]
Dict(f) == [t |-> "dict", d |-> f]
List(q) == [t |-> "list", l |-> q]

EmptyMap == [k \in {} |-> None]

\* Lexemes of a text.
Tok(kind, text) == [k |-> kind, s |-> text]
LB == Tok("lb", "{")
RB == Tok("rb", "}")
LSQ == Tok("lsq", "[")
RSQ == Tok("rsq", "]")
Colon == Tok("colon", ":")
Comma == Tok("comma", ",")
Lit(s) == Tok("str", s)        \* a double-quoted literal with content s
Word(s) == Tok("word", s)      \* a run of prose
NumTok(s) == Tok("num", s)     \* a number
TimeTok(n) == [k |-> "time", c |-> n]   \* a formatted time of the clock

\* The Python str whose content is the prose s.
Text(s) == IF s = "" THEN Str(<<>>) ELSE Str(<<Word(s)>>)

\* bool(v)
Truthy(v) ==
    CASE v.t = "none" -> FALSE
      [] v.t = "str" -> v.s # <<>>
      [] v.t = "num" -> v.n # "0"
      [] v.t = "dict" -> DOMAIN v.d # {}
      [] v.t = "list" -> v.l # <<>>
      [] OTHER -> TRUE

\* d[k] = v on a dict
Put(f, k, v) == (k :> v) @@ f

(***************************************************************************)
(* json.loads, on the lexemes: a value is a literal, a number, an object   *)
(* or an array; a duplicate key keeps its last value; the whole text must  *)
(* be one value.                                                           *)
(***************************************************************************)
ParseFail == [ok |-> FALSE, v |-> None, n |-> 0]

RECURSIVE ParseValue(_, _)
RECURSIVE ParseMembers(_, _, _)
RECURSIVE ParseElems(_, _, _)

ParseValue(toks, i) ==
    IF i > Len(toks) THEN ParseFail
    ELSE LET tk == toks[i] IN
         CASE tk.k = "str" -> [ok |-> TRUE, v |-> Text(tk.s), n |-> i + 1]
           [] tk.k = "num" -> [ok |-> TRUE, v |-> Num(tk.s), n |-> i + 1]
           [] tk.k = "lb" ->
                IF i + 1 <= Len(toks) /\ toks[i + 1].k = "rb"
                THEN [ok |-> TRUE, v |-> Dict(EmptyMap), n |-> i + 2]
                ELSE ParseMembers(toks, i + 1, EmptyMap)
           [] tk.k = "lsq" ->
                IF i + 1 <= Len(toks) /\ toks[i + 1].k = "rsq"
                THEN [ok |-> TRUE, v |-> List(<<>>), n |-> i + 2]
                ELSE ParseElems(toks, i + 1, <<>>)
           [] OTHER -> ParseFail

ParseMembers(toks, i, acc) ==
    IF i + 1 > Len(toks) \/ toks[i].k # "str" \/ toks[i + 1].k # "colon"
    THEN ParseFail
    ELSE LET r == ParseValue(toks, i + 2) IN
         IF ~r.ok \/ r.n > Len(toks) THEN ParseFail
         ELSE LET acc2 == Put(acc, toks[i].s, r.v) IN
              CASE toks[r.n].k = "comma" -> ParseMembers(toks, r.n + 1, acc2)
                [] toks[r.n].k = "rb" -> [ok |-> TRUE, v |-> Dict(acc2), n |-> r.n + 1]
                [] OTHER -> ParseFail

ParseElems(toks, i, acc) ==
    LET r == ParseValue(toks, i) IN
    IF ~r.ok \/ r.n > Len(toks) THEN ParseFail
    ELSE LET acc2 == Append(acc, r.v) IN
         CASE toks[r.n].k = "comma" -> ParseElems(toks, r.n + 1, acc2)
           [] toks[r.n].k = "rsq" -> [ok |-> TRUE, v |-> List(acc2), n |-> r.n + 1]
           [] OTHER -> ParseFail

JsonLoads(toks) ==
    LET r == ParseValue(toks, 1) IN
    IF r.ok /\ r.n = Len(toks) + 1 THEN [ok |-> TRUE, v |-> r.v]
    ELSE [ok |-> FALSE, v |-> None]

(***************************************************************************)
(* AgentOrchestrator.combine_results                                       *)
(***************************************************************************)
\* context.get(k, default)
Get(ctx, k, default) == IF k \in DOMAIN ctx THEN ctx[k] ELSE default

AgentsUsed ==
    List(<<Text("Investment Settings Agent"), Text("Pitch Deck Processing Agent"),
           Text("Thesis Matching Agent"), Text("Investment Summary Agent")>>)

\* PrimaryOf that drops a string it cannot parse.
PrimaryOf_discard(ctx) ==
    LET given == Get(ctx, "investment_summary", Dict(EmptyMap))
        parsed ==
            IF given.t = "str"
            THEN LET r == JsonLoads(given.s) IN
                 IF r.ok THEN r.v ELSE Dict(EmptyMap)
            ELSE given
    IN  IF ~Truthy(parsed)
        THEN Dict("Executive Summary" :> Text("No detailed summary available"))
        ELSE parsed

\* The primary value after the parse of a string and the placeholder.
PrimaryOf(ctx) ==
    LET given == Get(ctx, "investment_summary", Dict(EmptyMap))
        parsed ==
            IF given.t = "str"
            THEN LET r == JsonLoads(given.s) IN
                 IF r.ok THEN r.v
                 ELSE Dict(("Executive Summary" :> Text("Investment Summary"))
                           @@ ("Summary Text" :> given))
            ELSE given
    IN  IF ~Truthy(parsed)
        THEN Dict("Executive Summary" :> Text("No detailed summary available"))
        ELSE parsed

\* The three sections of the thesis matching output, each copied when the
\* report does not define it.
CopySection(rep, from, k) ==
    IF k \notin DOMAIN rep /\ k \in DOMAIN from THEN Put(rep, k, from[k]) ELSE rep

AddThesis(rep, ctx) ==
    LET thesis_matching == Get(ctx, "thesis_matching", Dict(EmptyMap)) IN
    IF Truthy(thesis_matching) /\ thesis_matching.t = "dict"
    THEN CopySection(
             CopySection(
                 CopySection(rep, thesis_matching.d, "ThesisMatching"),
                 thesis_matching.d, "InvestmentSummary"),
             thesis_matching.d, "FinalInvestmentMatchAnalysis")
    ELSE rep

AddPitch(rep, ctx) ==
    LET pitch_processing == Get(ctx, "pitch_processing", Dict(EmptyMap)) IN
    IF Truthy(pitch_processing) /\ pitch_processing.t = "dict"
       /\ "PitchAnalysis" \notin DOMAIN rep
    THEN LET p == pitch_processing.d
             pitch_analysis ==
                 CASE "pitch_deck_data" \in DOMAIN p -> p["pitch_deck_data"]
                   [] "pitch_deck_data" \notin DOMAIN p /\ "Signal Strength" \in DOMAIN p ->
                        Dict("Signal Strength" :> p["Signal Strength"])
                   [] {"pitch_deck_data", "Signal Strength"} \cap DOMAIN p = {}
                      /\ "Innovation Index" \in DOMAIN p ->
                        Dict("Innovation Index" :> p["Innovation Index"])
                   [] {"pitch_deck_data", "Signal Strength", "Innovation Index"}
                          \cap DOMAIN p = {}
                      /\ "Market Pulse" \in DOMAIN p ->
                        Dict("Market Pulse" :> p["Market Pulse"])
                   [] OTHER -> Dict(EmptyMap)
         IN  IF Truthy(pitch_analysis) THEN Put(rep, "PitchAnalysis", pitch_analysis)
             ELSE rep
    ELSE rep

\* AddInvestor that adds the investor profile even when it has no field.
AddInvestor_always(rep, ctx) ==
    LET investor_settings == Get(ctx, "investor_settings", Dict(EmptyMap)) IN
    IF Truthy(investor_settings) /\ investor_settings.t = "dict"
       /\ "InvestorProfile" \notin DOMAIN rep
    THEN LET s == investor_settings.d
             p1 == IF "investor_id" \in DOMAIN s
                   THEN ("investor_id" :> s["investor_id"]) ELSE EmptyMap
             p2 == IF "structured_data" \in DOMAIN s
                   THEN Put(p1, "preferences", s["structured_data"])
                   ELSE IF "full_text" \in DOMAIN s
                        THEN Put(p1, "summary", s["full_text"])
                        ELSE p1
         IN  Put(rep, "InvestorProfile", Dict(p2))
    ELSE rep

AddInvestor(rep, ctx) ==
    LET investor_settings == Get(ctx, "investor_settings", Dict(EmptyMap)) IN
    IF Truthy(investor_settings) /\ investor_settings.t = "dict"
       /\ "InvestorProfile" \notin DOMAIN rep
    THEN LET s == investor_settings.d
             p1 == IF "investor_id" \in DOMAIN s
                   THEN ("investor_id" :> s["investor_id"]) ELSE EmptyMap
             p2 == IF "structured_data" \in DOMAIN s
                   THEN Put(p1, "preferences", s["structured_data"])
                   ELSE IF "full_text" \in DOMAIN s
                        THEN Put(p1, "summary", s["full_text"])
                        ELSE p1
         IN  IF DOMAIN p2 # {} THEN Put(rep, "InvestorProfile", Dict(p2)) ELSE rep
    ELSE rep

\* time.strftime("%Y-%m-%d %H:%M:%S") at clock value clock
Strftime(clock) == Str(<<TimeTok(clock)>>)

\* AddMetadata with the time of the call written at the top level of the report too.
AddMetadata_toplevel(rep, clock) ==
    Put(Put(rep, "metadata",
            Dict(("processing_timestamp" :> Strftime(clock)) @@
                 ("agents_used" :> AgentsUsed))),
        "generated_at", Strftime(clock))

AddMetadata(rep, clock) ==
    Put(rep, "metadata",
        Dict(("processing_timestamp" :> Strftime(clock)) @@ ("agents_used" :> AgentsUsed)))

\* combine_results(context) called when the clock reads clock: the report, or
\* the exception the call ends with (.copy() of a value that has none, or the
\* item assignment to a list).
combine_results(ctx, clock) ==
    LET primary == PrimaryOf(ctx) IN
    CASE primary.t = "dict" ->
           [raised |-> "",
            v |-> Dict(AddMetadata(AddInvestor(AddPitch(AddThesis(primary.d, ctx), ctx), ctx),
                                   clock))]
      [] primary.t = "list" -> [raised |-> "TypeError", v |-> None]
      [] OTHER -> [raised |-> "AttributeError", v |-> None]

\* ContextAfter for a report built on the primary record itself, not on a copy.
ContextAfter_alias(ctx, clock) ==
    LET primary == Get(ctx, "investment_summary", Dict(EmptyMap)) IN
    IF primary.t = "dict" /\ Truthy(primary)
    THEN Put(ctx, "investment_summary", combine_results(ctx, clock).v)
    ELSE ctx

\* The context after combine_results(context): the report is built on
\* investment_summary.copy() and only its own top-level keys are assigned, so
\* no value of the context is touched.
ContextAfter(ctx, clock) ==
    ctx

(***************************************************************************)
(* generate_executive_summary, from the text of the analysis service on:   *)
(* src/investment_summary_agent.py lines 342-543.                          *)
(***************************************************************************)
Min(S) == CHOOSE i \in S : \A j \in S : i <= j
Max(S) == CHOOSE i \in S : \A j \in S : i >= j

\* re.search(r'(\{.*\})', s, re.DOTALL): from the first "{" to the last "}".
BraceMatch(toks) ==
    LET opens == {i \in 1..Len(toks) : toks[i].k = "lb"}
        closes == {j \in 1..Len(toks) : toks[j].k = "rb"}
    IN  IF opens # {} /\ closes # {} /\ Min(opens) < Max(closes)
        THEN [found |-> TRUE, s |-> SubSeq(toks, Min(opens), Max(closes))]
        ELSE [found |-> FALSE, s |-> <<>>]

\* "<name>"\s*:\s*"([^"]+)" matches at lexeme i.
PairAt(toks, i) ==
    /\ i + 2 <= Len(toks)
    /\ toks[i].k = "str" /\ toks[i].s # ""
    /\ toks[i + 1].k = "colon"
    /\ toks[i + 2].k = "str" /\ toks[i + 2].s # ""

FieldAt(toks, i, field) == PairAt(toks, i) /\ toks[i].s = field

\* "<section>"\s*:\s*{ matches at lexeme i.
SectionOpenAt(toks, i) ==
    /\ i + 2 <= Len(toks)
    /\ toks[i].k = "str" /\ toks[i].s # ""
    /\ toks[i + 1].k = "colon"
    /\ toks[i + 2].k = "lb"

\* The lexeme closing the [^}]+ that starts after the "{" at lexeme i + 2:
\* the first "}" after it, with at least one lexeme between; 0 when none.
SectionClose(toks, i) ==
    LET closes == {e \in (i + 3)..Len(toks) : toks[e].k = "rb"} IN
    IF closes # {} /\ Min(closes) > i + 3 THEN Min(closes) ELSE 0

extract_simple_field(toks, field_name, default) ==
    LET hits == {i \in 1..Len(toks) : FieldAt(toks, i, field_name)} IN
    IF hits # {} THEN Text(toks[Min(hits) + 2].s) ELSE Text(default)

extract_section_field(toks, section, field, default) ==
    LET n == Len(toks)
        \* first try: the field inside the braces that open the section
        precise == {p \in (1..n) \X (1..n) :
                       /\ SectionOpenAt(toks, p[1]) /\ toks[p[1]].s = section
                       /\ p[2] >= p[1] + 3
                       /\ FieldAt(toks, p[2], field)
                       /\ \A m \in (p[1] + 3)..(p[2] - 1) : toks[m].k # "lb"}
        \* second try: the field anywhere after the section's name
        lenient == {p \in (1..n) \X (1..n) :
                       /\ toks[p[1]] = Lit(section)
                       /\ p[2] > p[1]
                       /\ FieldAt(toks, p[2], field)}
        First(P) == LET a == Min({p[1] : p \in P}) IN
                    Min({p[2] : p \in {q \in P : q[1] = a}})
        \* third try: the section's braces, then the field inside them
        blocks == {i \in 1..n : SectionOpenAt(toks, i) /\ toks[i].s = section
                                /\ SectionClose(toks, i) # 0}
        inside == IF blocks = {} THEN {}
                  ELSE LET b == Min(blocks) IN
                       {j \in (b + 3)..(SectionClose(toks, b) - 3) : FieldAt(toks, j, field)}
        \* fourth try: the field anywhere
        anywhere == {j \in 1..n : FieldAt(toks, j, field)}
    IN  CASE precise # {} -> Text(toks[First(precise) + 2].s)
          [] precise = {} /\ lenient # {} -> Text(toks[First(lenient) + 2].s)
          [] precise = {} /\ lenient = {} /\ inside # {} -> Text(toks[Min(inside) + 2].s)
          [] precise = {} /\ lenient = {} /\ inside = {} /\ anywhere # {} ->
               Text(toks[Min(anywhere) + 2].s)
          [] OTHER -> Text(default)

\* re.findall of the name/value pairs of one section's content
RECURSIVE FieldsOf(_, _, _)
FieldsOf(toks, i, acc) ==
    IF i > Len(toks) THEN acc
    ELSE IF PairAt(toks, i)
         THEN FieldsOf(toks, i + 3, Put(acc, toks[i].s, Text(toks[i + 2].s)))
         ELSE FieldsOf(toks, i + 1, acc)

\* extract_all_sections: re.findall of the section blocks, left to right
RECURSIVE SectionsOf(_, _, _)
SectionsOf(toks, i, acc) ==
    IF i > Len(toks) THEN acc
    ELSE IF SectionOpenAt(toks, i) /\ SectionClose(toks, i) # 0
         THEN LET e == SectionClose(toks, i) IN
              SectionsOf(toks, e + 1,
                         Put(acc, toks[i].s,
                             Dict(FieldsOf(SubSeq(toks, i + 3, e - 1), 1, EmptyMap))))
         ELSE SectionsOf(toks, i + 1, acc)

extract_all_sections(toks) == SectionsOf(toks, 1, EmptyMap)

\* The sections of the summary that are records, with their fields.
SectionFields ==
    [sec \in {"Signal Strength", "Innovation Index", "Market Pulse", "Thesis Fit Score"} |->
        CASE sec = "Signal Strength" ->
               {"Problem Overview", "Validation & Supporting Data", "External Research",
                "Data Matching", "Conclusion"}
          [] sec = "Innovation Index" ->
               {"Solution Overview", "Technology & Differentiation", "MVP Stage",
                "Competitive Edge", "External Benchmarks", "Conclusion"}
          [] sec = "Market Pulse" ->
               {"Market Opportunity", "TAM/SAM/SOM", "Growth Trends",
                "Business Model & Traction", "Revenue Model", "Financial Metrics",
                "External Validation", "Conclusion"}
          [] sec = "Thesis Fit Score" ->
               {"Investor Criteria & Match Breakdown", "Industry Alignment",
                "Geographical & Stage Fit", "Funding & Exit",
                "Technology & Business Model", "Overall Fit Score"}]

required_sections == DOMAIN SectionFields

\* The record built field by field (lines 463-499).
ManualSummary(toks, startup_name, final_recommendation) ==
    Dict([sec \in required_sections |->
              Dict([f \in SectionFields[sec] |->
                        extract_section_field(toks, sec, f, "Unable to extract")])]
         @@ ("Executive Summary" :> startup_name)
         @@ ("Final Recommendation" :> final_recommendation))

\* The record returned when the crew or the extraction raised (lines 505-543).
ErrorSummary ==
    Dict([sec \in required_sections |->
              Dict([f \in SectionFields[sec] |-> Text("Error occurred during analysis")])]
         @@ ("Executive Summary" :> Text("Error"))
         @@ ("Final Recommendation" :> Text("Error occurred during analysis")))

\* Lines 357-503: the whole text as JSON, else the regular expressions.
FieldExtraction(toks) ==
    LET whole == JsonLoads(toks) IN
    IF whole.ok THEN whole.v
    ELSE LET startup_name == extract_simple_field(toks, "Executive Summary", "Unknown Startup")
             final_recommendation ==
                 extract_simple_field(toks, "Final Recommendation",
                                      "Unable to extract final recommendation")
             all_sections == extract_all_sections(toks)
             has_all_sections == required_sections \subseteq DOMAIN all_sections
         IN  IF DOMAIN all_sections # {} /\ has_all_sections
             THEN Dict(Put(all_sections @@ ("Executive Summary" :> startup_name),
                           "Final Recommendation", final_recommendation))
             ELSE ManualSummary(toks, startup_name, final_recommendation)

\* Lines 344-503: the text between the outer braces as JSON is returned as it
\* parses; otherwise the field extraction.
ExtractSummary(toks) ==
    LET json_match == BraceMatch(toks)
        extracted_json == JsonLoads(json_match.s)
    IN  IF json_match.found /\ extracted_json.ok THEN extracted_json.v
        ELSE FieldExtraction(toks)

(***************************************************************************)
(* The stage definitions and what the stage handlers can do.               *)
(***************************************************************************)
Config(name, filename, function_name, parallel, input_key, output_key) ==
    [name |-> name, filename |-> filename, function_name |-> function_name,
     parallel |-> parallel, input_key |-> input_key, output_key |-> output_key]

\* The stage list with the Pitch Deck stage writing the Investment Settings key.
AgentConfigs_shared ==
    <<Config("Investment Settings Agent", "inestment_settings_agent.py",
             "generate_profile_summary", TRUE, "investor_id", "investor_settings"),
      Config("Pitch Deck Processing Agent", "pitch_deck_processing_agent.py",
             "process_pitch_deck", TRUE, "pitch_id", "investor_settings"),
      Config("Thesis Matching Agent", "thesis_matching_agent.py",
             "generate_investor_thesis_matching", FALSE, "pitch_id", "thesis_matching"),
      Config("Investment Summary Agent", "investment_summary_agent.py",
             "generate_executive_summary", FALSE, "pitch_id", "investment_summary")>>

\* self.agent_configs, as __init__ writes it
AgentConfigs ==
    <<Config("Investment Settings Agent", "inestment_settings_agent.py",
             "generate_profile_summary", TRUE, "investor_id", "investor_settings"),
      Config("Pitch Deck Processing Agent", "pitch_deck_processing_agent.py",
             "process_pitch_deck", TRUE, "pitch_id", "pitch_processing"),
      Config("Thesis Matching Agent", "thesis_matching_agent.py",
             "generate_investor_thesis_matching", FALSE, "pitch_id", "thesis_matching"),
      Config("Investment Summary Agent", "investment_summary_agent.py",
             "generate_executive_summary", FALSE, "pitch_id", "investment_summary")>>

AllFiles == {AgentConfigs[i].filename : i \in 1..Len(AgentConfigs)}

\* The stage list with one output_key changed to another stage's.
WithOutputKey(configs, i, key) ==
    [configs EXCEPT ![i] = [configs[i] EXCEPT !.output_key = key]]

ConfigChoices ==
    {AgentConfigs,
     WithOutputKey(AgentConfigs, 2, "investor_settings"),
     WithOutputKey(AgentConfigs, 3, "investment_summary")}

HasDuplicateOutputKey(configs) ==
    \E i, j \in 1..Len(configs) : i # j /\ configs[i].output_key = configs[j].output_key

\* [config for config in self.agent_configs if config["parallel"] == flag]
RECURSIVE SelectConfigs(_, _)
SelectConfigs(configs, flag) ==
    IF configs = <<>> THEN <<>>
    ELSE IF Head(configs).parallel = flag
         THEN <<Head(configs)>> \o SelectConfigs(Tail(configs), flag)
         ELSE SelectConfigs(Tail(configs), flag)

\* The sequential stages taken from the end of the list.
sequential_configs_reversed ==
    LET q == SelectConfigs(agent_configs, FALSE) IN [k \in 1..Len(q) |-> q[Len(q) + 1 - k]]

parallel_configs == SelectConfigs(agent_configs, TRUE)

sequential_configs == SelectConfigs(agent_configs, FALSE)

\* The identifiers a caller passes.
Ids == {None, Num("7")}

\* What executing a stage's module can end with: the module body of every
\* agent can raise (an import, the ValueError on a missing API key), the
\* Investment Settings module calls sys.exit(1) on a missing API key.
LoadOutcomes(filename) ==
    {"ok", "Exception"}
    \cup (IF filename = "inestment_settings_agent.py" THEN {"SystemExit"} ELSE {})

\* What importing the module and getattr(module, function_name) can end
\* with: getattr raises AttributeError when the module lacks the function.
ModuleOutcomes(config) ==
    IF config.filename \in functions
    THEN LoadOutcomes(config.filename)
    ELSE LoadOutcomes(config.filename) \ {"ok"}

ErrorRecord == Dict("error" :> Text("failed"))

\* The columns the handlers write.
InvestorSummaryColumn == "investor_profiles.investorSettingsAgent"
ExternalValidationColumn == "pitch_decks.ExternalValidationAgent"
FinalPitchDeckColumn == "pitch_decks.finalPitchDeckAgent"

\* structured_profile of generate_profile_summary
Profile(arg, save_status) ==
    Dict(("investor_id" :> arg)
         @@ ("full_text" :> Text("profile summary"))
         @@ ("structured_data" :> Dict("investor_name" :> Text("name")))
         @@ ("word_count" :> Num("500"))
         @@ ("save_status" :> Text(save_status)))

\* json.dumps(final_output) of process_pitch_deck
Rated(section, rating) ==
    <<Lit(section), Colon, LB, Lit("rating"), Colon, Lit(rating), Comma,
      Lit("assessment"), Colon, Lit("assessed"), RB>>

PitchJson ==
    <<LB>> \o Rated("Signal Strength", "High") \o <<Comma>>
           \o Rated("Innovation Index", "Moderate") \o <<Comma>>
           \o Rated("Market Pulse", "Low") \o <<RB>>

\* matching_analysis of generate_investor_thesis_matching
ThesisAnalysis ==
    Dict(("ThesisMatching" :> Dict("Industry" :> Text("match")))
         @@ ("InvestmentSummary" :> Dict("Technology" :> Text("tech")))
         @@ ("FinalInvestmentMatchAnalysis" :> Text("analysis")))

\* Texts of the analysis service the Investment Summary stage is run on.
SummaryTexts ==
    {<<Word("no analysis possible")>>,
     <<LB, Lit("Executive Summary"), Colon, Lit("Acme"), RB>>,
     <<LB, Lit("metadata"), Colon, Lit("mine"), Comma,
       Lit("ThesisMatching"), Colon, Lit("own"), RB>>,
     <<NumTok("42")>>,
     <<LSQ, NumTok("1"), RSQ>>}

Outcome(exc, result, writes) == [exc |-> exc, result |-> result, writes |-> writes]

\* What one call func(input_value) can do: the exception it ends with or the
\* value it returns, and the columns it has written by then, in order.
HandlerOutcomes(function_name, arg) ==
    CASE function_name = "generate_profile_summary" ->
           {Outcome("", ErrorRecord, <<>>),
            Outcome("", Profile(arg, "success"), <<InvestorSummaryColumn>>),
            Outcome("", Profile(arg, "failed"), <<>>)}
      [] function_name = "process_pitch_deck" ->
           {Outcome("Exception", None, <<>>),
            Outcome("", Str(PitchJson), <<ExternalValidationColumn, FinalPitchDeckColumn>>),
            Outcome("", Str(PitchJson), <<>>)}
      [] function_name = "generate_investor_thesis_matching" ->
           {Outcome("", ErrorRecord, <<>>),
            Outcome("", ThesisAnalysis, <<>>)}
      [] function_name = "generate_executive_summary" ->
           {Outcome("Exception", None, <<>>),
            Outcome("", ErrorRecord, <<>>),
            Outcome("", ErrorSummary, <<>>)}
           \cup {Outcome("", ExtractSummary(t), <<>>) : t \in SummaryTexts}

\* Lines 121-129 of _run_module_function
InputValue(config, ctx, specific_input) ==
    IF specific_input # None
    THEN IF specific_input.t = "dict" /\ "ThesisMatching" \in DOMAIN specific_input.d
         THEN Get(ctx, "pitch_id", None)
         ELSE specific_input
    ELSE Get(ctx, config.input_key, None)

(***************************************************************************)
(* The state before AgentOrchestrator() is called.                         *)
(***************************************************************************)
NoReturn == [kind |-> "none"]

\* No command line run: the orchestrator is used as a library.
NoCli == [argv |-> <<>>, stdin |-> <<>>, prompts |-> 0, ids |-> <<>>, exit_code |-> <<>>]
Returned(success, report) == [kind |-> "return", success |-> success, report |-> report]
Raised(exc) == [kind |-> "raise", exc |-> exc]

NotRun == [kind |-> "none"]

InitWith(configs, present) ==
    /\ pc = "new"
    /\ agent_configs = configs
    /\ files = present
    /\ pitch_id = None
    /\ investor_id = None
    /\ context = EmptyMap
    /\ worker = <<>>
    /\ collected = {}
    /\ seq_i = 1
    /\ last_output = None
    /\ calls = <<>>
    /\ failed = {}
    /\ combine_calls = 0
    /\ ret = NoReturn
    /\ store = {}
    /\ now = 0
    /\ reports = <<>>
    /\ raw_text = <<>>
    /\ extracted = NotRun
    /\ written = <<>>
    /\ cli = NoCli

\* The modules whose stage function getattr can find: all, or all but one.
FunctionChoices == {AllFiles} \cup {AllFiles \ {f} : f \in AllFiles}

Init ==
    /\ \E present \in {AllFiles} \cup {AllFiles \ {f} : f \in AllFiles} :
          InitWith(AgentConfigs, present)
    /\ functions \in FunctionChoices

(***************************************************************************)
(* AgentOrchestrator.__init__: every module file must exist.               *)
(***************************************************************************)
ModulesVerified_any(configs, present) ==
    \E i \in 1..Len(configs) : configs[i].filename \in present

ModulesVerified(configs, present) ==
    \A i \in 1..Len(configs) : configs[i].filename \in present

Construct ==
    /\ pc = "new"
    /\ pc' = IF ModulesVerified(agent_configs, files) THEN "ready" ELSE "rejected"
    /\ ret' = IF ModulesVerified(agent_configs, files) THEN ret
              ELSE Raised("FileNotFoundError")
    /\ UNCHANGED <<agent_configs, files, pitch_id, investor_id, context, worker,
                   collected, seq_i, last_output, calls, combine_calls, store, now,
                   reports, raw_text, extracted, failed, functions, written, cli>>

(***************************************************************************)
(* orchestrate: the context is created and the parallel stages submitted.  *)
(***************************************************************************)
Pending == [st |-> "pending", exc |-> "", result |-> None, todo |-> <<>>]

OrchestrateWith(p, i) ==
    /\ pc = "ready"
    /\ pitch_id' = p
    /\ investor_id' = i
    /\ context' = ("pitch_id" :> p) @@ ("investor_id" :> i)
    /\ IF parallel_configs # <<>>
       THEN /\ pc' = "collect"
            /\ worker' = [w \in 1..Len(parallel_configs) |-> Pending]
       ELSE /\ pc' = "sequential"
            /\ worker' = worker
    /\ UNCHANGED <<agent_configs, files, collected, seq_i, last_output, calls,
                   combine_calls, ret, store, now, reports, raw_text, extracted, failed,
                   functions, written, cli>>

\* A caller's orchestrate(pitch_id, investor_id).
Orchestrate == \E p \in Ids, i \in Ids : OrchestrateWith(p, i)

(***************************************************************************)
(* A worker thread runs _run_module_function(config, context).             *)
(***************************************************************************)
\* WorkerMayStart for a pool whose queued stages start only while the caller
\* is in the collection loop.
WorkerMayStart_loop == pc = "collect"

\* ThreadPoolExecutor(max_workers=len(parallel_configs)): there is a thread for
\* every submitted stage, so a stage starts without waiting for another one,
\* also while the caller waits at the end of the with block.
WorkerMayStart == pc \in {"collect", "join_false", "join_exit"}

\* The module is executed, the input read from the context and the handler
\* called; what the handler will do is fixed here and unfolds in the steps below.
WorkerStart(w) ==
    /\ WorkerMayStart
    /\ w \in DOMAIN worker
    /\ worker[w].st = "pending"
    /\ LET config == parallel_configs[w]
           input_value == InputValue(config, context, None)
       IN  \E load \in ModuleOutcomes(config) :
              IF load # "ok"
              THEN /\ worker' = [worker EXCEPT ![w] = [st |-> "done", exc |-> load,
                                                       result |-> None, todo |-> <<>>]]
                   /\ calls' = calls
                   /\ failed' = failed \cup {config.name}
              ELSE IF input_value = None
                   THEN /\ worker' = [worker EXCEPT ![w] = [st |-> "done", exc |-> "",
                                                            result |-> None, todo |-> <<>>]]
                        /\ calls' = calls
                        /\ failed' = failed
                   ELSE \E o \in HandlerOutcomes(config.function_name, input_value) :
                           /\ worker' = [worker EXCEPT ![w] =
                                            [st |-> "running", exc |-> o.exc,
                                             result |-> o.result, todo |-> o.writes]]
                           /\ calls' = Append(calls, <<config.name, input_value>>)
                           /\ failed' = failed
    /\ UNCHANGED <<pc, agent_configs, files, pitch_id, investor_id, context, collected,
                   seq_i, last_output, combine_calls, ret, store, now, reports,
                   raw_text, extracted, functions, written, cli>>

\* The running handler writes its next column.
WorkerSave(w) ==
    /\ w \in DOMAIN worker
    /\ worker[w].st = "running"
    /\ worker[w].todo # <<>>
    /\ store' = store \cup {Head(worker[w].todo)}
    /\ worker' = [worker EXCEPT ![w].todo = Tail(@)]
    /\ UNCHANGED <<pc, agent_configs, files, pitch_id, investor_id, context, collected,
                   seq_i, last_output, calls, combine_calls, ret, now, reports,
                   raw_text, extracted, failed, functions, written, cli>>

\* WorkerFinish in which the worker itself stores its result in the context.
WorkerFinish_store(w) ==
    /\ w \in DOMAIN worker
    /\ worker[w].st = "running"
    /\ worker[w].todo = <<>>
    /\ worker' = [worker EXCEPT ![w].st = "done"]
    /\ failed' = IF worker[w].exc # "" THEN failed \cup {parallel_configs[w].name} ELSE failed
    /\ context' = IF worker[w].exc = ""
                  THEN Put(context, parallel_configs[w].output_key, worker[w].result)
                  ELSE context
    /\ UNCHANGED <<pc, agent_configs, files, pitch_id, investor_id, collected,
                   seq_i, last_output, calls, combine_calls, ret, store, now, reports,
                   raw_text, extracted, functions, written, cli>>

\* The handler returns or raises: the future is complete.
WorkerFinish(w) ==
    /\ w \in DOMAIN worker
    /\ worker[w].st = "running"
    /\ worker[w].todo = <<>>
    /\ worker' = [worker EXCEPT ![w].st = "done"]
    /\ failed' = IF worker[w].exc # "" THEN failed \cup {parallel_configs[w].name} ELSE failed
    /\ UNCHANGED <<pc, agent_configs, files, pitch_id, investor_id, context, collected,
                   seq_i, last_output, calls, combine_calls, ret, store, now, reports,
                   raw_text, extracted, functions, written, cli>>

AllDone == \A w \in DOMAIN worker : worker[w].st = "done"

(***************************************************************************)
(* run_parallel_agents: the result-collection loop over as_completed.      *)
(***************************************************************************)
\* CollectResult that goes on to the sequential stages after the first result.
CollectResult_nojoin(w) ==
    /\ pc = "collect"
    /\ w \in DOMAIN worker
    /\ w \notin collected
    /\ worker[w].st = "done"
    /\ worker[w].exc = ""
    /\ context' = Put(context, parallel_configs[w].output_key, worker[w].result)
    /\ collected' = collected \cup {w}
    /\ written' = Append(written, <<parallel_configs[w].name,
                                    parallel_configs[w].output_key>>)
    /\ pc' = "sequential"
    /\ UNCHANGED <<agent_configs, files, pitch_id, investor_id, worker, seq_i,
                   last_output, calls, combine_calls, ret, store, now, reports,
                   raw_text, extracted, failed, functions, cli>>

\* future.result() returned: the value is written to the context; after the
\* last future the with block is left and the sequential stages follow.
CollectResult(w) ==
    /\ pc = "collect"
    /\ w \in DOMAIN worker
    /\ w \notin collected
    /\ worker[w].st = "done"
    /\ worker[w].exc = ""
    /\ context' = Put(context, parallel_configs[w].output_key, worker[w].result)
    /\ collected' = collected \cup {w}
    /\ written' = Append(written, <<parallel_configs[w].name,
                                    parallel_configs[w].output_key>>)
    /\ pc' = IF collected' = DOMAIN worker THEN "sequential" ELSE "collect"
    /\ UNCHANGED <<agent_configs, files, pitch_id, investor_id, worker, seq_i,
                   last_output, calls, combine_calls, ret, store, now, reports,
                   raw_text, extracted, failed, functions, cli>>

\* CollectFailure that records None for the failed stage before it returns.
CollectFailure_store(w) ==
    /\ pc = "collect"
    /\ w \in DOMAIN worker
    /\ w \notin collected
    /\ worker[w].st = "done"
    /\ worker[w].exc # ""
    /\ collected' = collected \cup {w}
    /\ context' = Put(context, parallel_configs[w].output_key, None)
    /\ written' = Append(written, <<parallel_configs[w].name,
                                    parallel_configs[w].output_key>>)
    /\ pc' = IF worker[w].exc = "Exception" THEN "join_false" ELSE "join_exit"
    /\ UNCHANGED <<agent_configs, files, pitch_id, investor_id, worker, seq_i,
                   last_output, calls, combine_calls, ret, store, now, reports,
                   raw_text, extracted, failed, functions, cli>>

\* CollectFailure that submits the failed stage again.
CollectFailure_retry(w) ==
    /\ pc = "collect"
    /\ w \in DOMAIN worker
    /\ w \notin collected
    /\ worker[w].st = "done"
    /\ worker[w].exc # ""
    /\ worker' = [worker EXCEPT ![w] = Pending]
    /\ UNCHANGED <<pc, agent_configs, files, pitch_id, investor_id, context, collected,
                   seq_i, last_output, calls, combine_calls, ret, store, now, reports,
                   raw_text, extracted, failed, functions, written, cli>>

\* future.result() raised: an Exception is caught and the loop left with
\* return False; anything else is caught by no handler of the orchestrator.
CollectFailure(w) ==
    /\ pc = "collect"
    /\ w \in DOMAIN worker
    /\ w \notin collected
    /\ worker[w].st = "done"
    /\ worker[w].exc # ""
    /\ collected' = collected \cup {w}
    /\ pc' = IF worker[w].exc = "Exception" THEN "join_false" ELSE "join_exit"
    /\ UNCHANGED <<agent_configs, files, pitch_id, investor_id, context, worker, seq_i,
                   last_output, calls, combine_calls, ret, store, now, reports,
                   raw_text, extracted, failed, functions, written, cli>>

\* JoinReturnFalse that does not wait for the workers still running.
JoinReturnFalse_nowait ==
    /\ pc = "join_false"
    /\ pc' = "returned"
    /\ ret' = Returned(FALSE, None)
    /\ UNCHANGED <<agent_configs, files, pitch_id, investor_id, context, worker,
                   collected, seq_i, last_output, calls, combine_calls, store, now,
                   reports, raw_text, extracted, failed, functions, written, cli>>

\* Leaving the with block shuts the executor down and waits for every worker;
\* then run_parallel_agents returns False and orchestrate (False, None).
JoinReturnFalse ==
    /\ pc = "join_false"
    /\ AllDone
    /\ pc' = "returned"
    /\ ret' = Returned(FALSE, None)
    /\ UNCHANGED <<agent_configs, files, pitch_id, investor_id, context, worker,
                   collected, seq_i, last_output, calls, combine_calls, store, now,
                   reports, raw_text, extracted, failed, functions, written, cli>>

\* The same wait, then the exception leaves orchestrate.
JoinPropagate ==
    /\ pc = "join_exit"
    /\ AllDone
    /\ pc' = "raised"
    /\ ret' = Raised("SystemExit")
    /\ UNCHANGED <<agent_configs, files, pitch_id, investor_id, context, worker,
                   collected, seq_i, last_output, calls, combine_calls, store, now,
                   reports, raw_text, extracted, failed, functions, written, cli>>

(***************************************************************************)
(* run_sequential_agents: one stage per step, on the calling thread.  The  *)
(* stage lists studied all hold a sequential stage, as the source's does.  *)
(***************************************************************************)
\* SpecificInput that hands the last output to every stage.
SpecificInput_chained(config, last) ==
    IF last # None THEN last ELSE None

\* specific_input of a sequential stage: the last output, except for the
\* Investment Summary Agent and when there is none.
SpecificInput(config, last) ==
    IF last # None /\ config.name # "Investment Summary Agent" THEN last ELSE None

\* SequentialStage with the except clause logging the failure and going on.
SequentialStage_swallow ==
    /\ pc = "sequential"
    /\ seq_i <= Len(sequential_configs)
    /\ LET config == sequential_configs[seq_i]
           specific_input == SpecificInput(config, last_output)
           input_value == InputValue(config, context, specific_input)
           Stored(result) ==
               /\ context' = Put(context, config.output_key, result)
               /\ last_output' = result
               /\ seq_i' = seq_i + 1
               /\ pc' = IF seq_i = Len(sequential_configs) THEN "combine" ELSE "sequential"
               /\ ret' = ret
               /\ failed' = failed
               /\ written' = Append(written, <<config.name, config.output_key>>)
           Failed(exc) ==
               /\ pc' = IF seq_i = Len(sequential_configs) THEN "combine" ELSE "sequential"
               /\ seq_i' = seq_i + 1
               /\ failed' = failed \cup {config.name}
               /\ UNCHANGED <<context, last_output, ret, written>>
       IN  \E load \in ModuleOutcomes(config) :
              IF load # "ok"
              THEN Failed(load) /\ UNCHANGED <<calls, store>>
              ELSE IF input_value = None
                   THEN Stored(None) /\ UNCHANGED <<calls, store>>
                   ELSE \E o \in HandlerOutcomes(config.function_name, input_value) :
                           /\ calls' = Append(calls, <<config.name, input_value>>)
                           /\ store' = store \cup {o.writes[k] : k \in 1..Len(o.writes)}
                           /\ IF o.exc # "" THEN Failed(o.exc) ELSE Stored(o.result)
    /\ UNCHANGED <<agent_configs, files, pitch_id, investor_id, worker, collected,
                   combine_calls, now, reports, raw_text, extracted,
                   functions, cli>>

SequentialStage ==
    /\ pc = "sequential"
    /\ seq_i <= Len(sequential_configs)
    /\ LET config == sequential_configs[seq_i]
           specific_input == SpecificInput(config, last_output)
           input_value == InputValue(config, context, specific_input)
           Stored(result) ==
               /\ context' = Put(context, config.output_key, result)
               /\ last_output' = result
               /\ seq_i' = seq_i + 1
               /\ pc' = IF seq_i = Len(sequential_configs) THEN "combine" ELSE "sequential"
               /\ ret' = ret
               /\ failed' = failed
               /\ written' = Append(written, <<config.name, config.output_key>>)
           Failed(exc) ==
               /\ pc' = IF exc = "Exception" THEN "returned" ELSE "raised"
               /\ ret' = IF exc = "Exception" THEN Returned(FALSE, None) ELSE Raised(exc)
               /\ failed' = failed \cup {config.name}
               /\ UNCHANGED <<context, last_output, seq_i, written>>
       IN  \E load \in ModuleOutcomes(config) :
              IF load # "ok"
              THEN Failed(load) /\ UNCHANGED <<calls, store>>
              ELSE IF input_value = None
                   THEN Stored(None) /\ UNCHANGED <<calls, store>>
                   ELSE \E o \in HandlerOutcomes(config.function_name, input_value) :
                           /\ calls' = Append(calls, <<config.name, input_value>>)
                           /\ store' = store \cup {o.writes[k] : k \in 1..Len(o.writes)}
                           /\ IF o.exc # "" THEN Failed(o.exc) ELSE Stored(o.result)
    /\ UNCHANGED <<agent_configs, files, pitch_id, investor_id, worker, collected,
                   combine_calls, now, reports, raw_text, extracted,
                   functions, cli>>

\* combine_results(context), outside every try of the orchestrator: its
\* report is returned with True, its exception leaves orchestrate.
CombineResults ==
    /\ pc = "combine"
    /\ LET r == combine_results(context, now) IN
          /\ pc' = IF r.raised = "" THEN "returned" ELSE "raised"
          /\ ret' = IF r.raised = "" THEN Returned(TRUE, r.v) ELSE Raised(r.raised)
    /\ combine_calls' = combine_calls + 1
    /\ context' = ContextAfter(context, now)
    /\ UNCHANGED <<agent_configs, files, pitch_id, investor_id, worker,
                   collected, seq_i, last_output, calls, store, now, reports,
                   raw_text, extracted, failed, functions, written, cli>>

\* A second passes.
Tick ==
    /\ now < MaxClock
    /\ now' = now + 1
    /\ UNCHANGED <<pc, agent_configs, files, pitch_id, investor_id, context, worker,
                   collected, seq_i, last_output, calls, combine_calls, ret, store,
                   reports, raw_text, extracted, failed, functions, written, cli>>

Next ==
    \/ Construct
    \/ Orchestrate
    \/ \E w \in DOMAIN worker : WorkerStart(w)
    \/ \E w \in DOMAIN worker : WorkerSave(w)
    \/ \E w \in DOMAIN worker : WorkerFinish(w)
    \/ \E w \in DOMAIN worker : CollectResult(w)
    \/ \E w \in DOMAIN worker : CollectFailure(w)
    \/ JoinReturnFalse
    \/ JoinPropagate
    \/ SequentialStage
    \/ CombineResults
    \/ Tick

\* One orchestrator, built by the source's __init__, and one orchestrate call.
Spec == Init /\ [][Next]_vars

\* The steps of worker thread w and of the calling thread.
WorkerStep(w) == WorkerStart(w) \/ WorkerSave(w) \/ WorkerFinish(w)

CallerStep ==
    \/ \E w \in DOMAIN worker : CollectResult(w)
    \/ \E w \in DOMAIN worker : CollectFailure(w)
    \/ JoinReturnFalse
    \/ JoinPropagate
    \/ SequentialStage
    \/ CombineResults

\* The threads the pool can hold: one per stage of the list.
WorkerIds == 1..Len(AgentConfigs)

\* The same runs with every thread scheduled: a handler that was called ends,
\* a thread of the pool that can take a step takes one, and so does the
\* calling thread.
SpecLive ==
    /\ Init
    /\ [][Next]_vars
    /\ WF_vars(CallerStep)
    /\ \A w \in WorkerIds : WF_vars(WorkerStep(w))

\* The same with the stage list as the parameter of the construction.
InitCtor ==
    /\ \E configs \in ConfigChoices,
          present \in {AllFiles} \cup {AllFiles \ {f} : f \in AllFiles} :
          InitWith(configs, present)
    /\ functions = AllFiles

SpecCtor == InitCtor /\ [][Next]_vars

\* The stage list in other declaration orders: the sequential stages first,
\* and the two kinds interleaved.
OrderChoices ==
    {AgentConfigs,
     <<AgentConfigs[4], AgentConfigs[3], AgentConfigs[2], AgentConfigs[1]>>,
     <<AgentConfigs[3], AgentConfigs[1], AgentConfigs[4], AgentConfigs[2]>>}

InitOrder ==
    /\ \E configs \in OrderChoices : InitWith(configs, AllFiles)
    /\ functions = AllFiles

SpecOrder == InitOrder /\ [][Next]_vars

(***************************************************************************)
(* combine_results on its own: the contexts it can be given, each value a  *)
(* string, a record, a list, a number or None, or absent.                  *)
(***************************************************************************)
Absent == [t |-> "absent"]

PrimaryChoices ==
    {Absent, None, Str(<<>>), Str(<<Word("plain prose")>>),
     Str(<<LB, Lit("Executive Summary"), Colon, Lit("Acme"), RB>>),
     Str(<<LB, RB>>),
     Str(<<LSQ, NumTok("1"), RSQ>>),
     Str(<<NumTok("5")>>),
     Str(<<Lit("quoted")>>),
     Dict(EmptyMap),
     Dict("Executive Summary" :> Text("Acme")),
     Dict(("Executive Summary" :> Text("Acme")) @@ ("metadata" :> Text("mine"))),
     Dict(("ThesisMatching" :> Text("own")) @@ ("PitchAnalysis" :> Text("own"))
          @@ ("InvestorProfile" :> Text("own"))),
     ErrorSummary,
     List(<<Num("1")>>),
     Num("42")}

ThesisChoices ==
    {Absent, None, Text("prose"), ThesisAnalysis, ErrorRecord, List(<<Text("ThesisMatching")>>)}

PitchChoices ==
    {Absent, Str(PitchJson), JsonLoads(PitchJson).v, ErrorRecord, List(<<Text("Market Pulse")>>),
     Dict("pitch_deck_data" :> Dict("Startup Name" :> Text("Acme"))),
     Dict(("Innovation Index" :> Text("ii")) @@ ("Market Pulse" :> Text("mp")))}

InvestorChoices ==
    {Absent, None, ErrorRecord, Profile(Num("7"), "success"),
     Dict("full_text" :> Text("profile summary"))}

MakeContext(primary, thesis, pitch, investor) ==
    LET all == ("investment_summary" :> primary) @@ ("thesis_matching" :> thesis)
               @@ ("pitch_processing" :> pitch) @@ ("investor_settings" :> investor)
    IN  [k \in {x \in DOMAIN all : all[x] # Absent} |-> all[k]]
        @@ ("pitch_id" :> Num("7")) @@ ("investor_id" :> Num("7"))

InitCombine ==
    /\ \E primary \in PrimaryChoices, thesis \in ThesisChoices,
          pitch \in PitchChoices, investor \in InvestorChoices :
          context = MakeContext(primary, thesis, pitch, investor)
    /\ pc = "aggregate"
    /\ agent_configs = AgentConfigs
    /\ files = AllFiles
    /\ pitch_id = Num("7")
    /\ investor_id = Num("7")
    /\ worker = <<>>
    /\ collected = {}
    /\ seq_i = 1
    /\ last_output = None
    /\ calls = <<>>
    /\ failed = {}
    /\ combine_calls = 0
    /\ ret = NoReturn
    /\ store = {}
    /\ now = 0
    /\ reports = <<>>
    /\ raw_text = <<>>
    /\ extracted = NotRun
    /\ functions = AllFiles
    /\ written = <<>>
    /\ cli = NoCli

\* One more call of combine_results on the context.
CallCombine ==
    /\ pc = "aggregate"
    /\ Len(reports) < MaxCombineCalls
    /\ reports' = Append(reports, combine_results(context, now))
    /\ combine_calls' = combine_calls + 1
    /\ context' = ContextAfter(context, now)
    /\ UNCHANGED <<pc, agent_configs, files, pitch_id, investor_id, worker,
                   collected, seq_i, last_output, calls, ret, store, now, raw_text,
                   extracted, failed, functions, written, cli>>

NextCombine == CallCombine \/ Tick

SpecCombine == InitCombine /\ [][NextCombine]_vars

(***************************************************************************)
(* The extraction on its own: every text of up to MaxTextLen lexemes over  *)
(* TextAlphabet, and some longer ones.                                     *)
(***************************************************************************)
TextAlphabet ==
    {LB, RB, Colon, Comma, Lit("Signal Strength"), Lit("Conclusion"), Lit("High"),
     Word("Here is the result"), NumTok("5")}

LongTexts ==
    {<<LB, Lit("Executive Summary"), Colon, Lit("Acme"), RB>>,
     <<Word("Here is the result"), Colon, LB, Lit("Signal Strength"), Colon, LB,
       Lit("rating"), Colon, Lit("High"), RB>>,
     <<LB, Lit("Signal Strength"), Colon, LB, Lit("Conclusion"), Colon, Lit("High"), RB,
       Comma, Lit("Innovation Index"), Colon, LB, Lit("Conclusion"), Colon, Lit("Low"), RB,
       Comma, Lit("Market Pulse"), Colon, LB, Lit("Conclusion"), Colon, Lit("Low"), RB,
       Comma, Lit("Thesis Fit Score"), Colon, LB, Lit("Overall Fit Score"), Colon,
       Lit("Low"), RB>>,
     PitchJson}

Texts == UNION {[1..n -> TextAlphabet] : n \in 0..MaxTextLen} \cup LongTexts

InitExtract ==
    /\ raw_text \in Texts
    /\ pc = "extract"
    /\ agent_configs = AgentConfigs
    /\ files = AllFiles
    /\ pitch_id = Num("7")
    /\ investor_id = Num("7")
    /\ context = EmptyMap
    /\ worker = <<>>
    /\ collected = {}
    /\ seq_i = 1
    /\ last_output = None
    /\ calls = <<>>
    /\ failed = {}
    /\ combine_calls = 0
    /\ ret = NoReturn
    /\ store = {}
    /\ now = 0
    /\ reports = <<>>
    /\ extracted = NotRun
    /\ functions = AllFiles
    /\ written = <<>>
    /\ cli = NoCli

\* crew.kickoff() returned raw_text: lines 342-503.
RunExtraction ==
    /\ pc = "extract"
    /\ extracted = NotRun
    /\ extracted' = [kind |-> "return", v |-> ExtractSummary(raw_text)]
    /\ UNCHANGED <<pc, agent_configs, files, pitch_id, investor_id, context, worker,
                   collected, seq_i, last_output, calls, combine_calls, ret, store, now,
                   reports, raw_text, failed, functions, written, cli>>

\* crew.kickoff() raised: lines 505-543.
CrewRaises ==
    /\ pc = "extract"
    /\ extracted = NotRun
    /\ extracted' = [kind |-> "return", v |-> ErrorSummary]
    /\ UNCHANGED <<pc, agent_configs, files, pitch_id, investor_id, context, worker,
                   collected, seq_i, last_output, calls, combine_calls, ret, store, now,
                   reports, raw_text, failed, functions, written, cli>>

NextExtract == RunExtraction \/ CrewRaises

SpecExtract == InitExtract /\ [][NextExtract]_vars

(***************************************************************************)
(* The command line of the orchestrator (__main__).  An argument or a      *)
(* typed line is the sequence of its characters.                           *)
(***************************************************************************)
DigitChars == {"0", "1", "2", "3", "4", "5", "6", "7", "8", "9"}

RECURSIVE StripLeft(_)
StripLeft(cs) == IF cs # <<>> /\ Head(cs) = " " THEN StripLeft(Tail(cs)) ELSE cs

RECURSIVE StripRight(_)
StripRight(cs) ==
    IF cs # <<>> /\ cs[Len(cs)] = " " THEN StripRight(SubSeq(cs, 1, Len(cs) - 1)) ELSE cs

\* The digits of a literal without the underscores and the leading zeros.
RECURSIVE DigitString(_)
DigitString(cs) ==
    IF cs = <<>> THEN ""
    ELSE IF Head(cs) = "_" THEN DigitString(Tail(cs))
         ELSE Head(cs) \o DigitString(Tail(cs))

RECURSIVE StripZeros(_)
StripZeros(cs) ==
    IF Len(cs) > 1 /\ Head(cs) \in {"0", "_"} THEN StripZeros(Tail(cs)) ELSE cs

\* int(text): white space around, an optional sign, digits with single
\* underscores between them; ValueError otherwise.
PyInt(cs) ==
    LET s == StripRight(StripLeft(cs))
        signed == s # <<>> /\ Head(s) \in {"+", "-"}
        body == IF signed THEN Tail(s) ELSE s
        wellformed ==
            /\ body # <<>>
            /\ \A k \in 1..Len(body) :
                  \/ body[k] \in DigitChars
                  \/ /\ body[k] = "_"
                     /\ 1 < k /\ k < Len(body)
                     /\ body[k - 1] \in DigitChars /\ body[k + 1] \in DigitChars
        digits == DigitString(StripZeros(body))
    IN  IF wellformed
        THEN [ok |-> TRUE,
              v |-> Num(IF signed /\ Head(s) = "-" /\ digits # "0"
                        THEN "-" \o digits ELSE digits)]
        ELSE [ok |-> FALSE, v |-> None]

\* sys.argv[1:] of the runs considered.
ArgChoices ==
    {<<>>,
     << <<"7">> >>,
     << <<"7">>, <<"8">> >>,
     << <<" ", "7">>, <<"+", "0", "8">>, <<"9">> >>,
     << <<"x">>, <<"8">> >>,
     << <<"7">>, <<"8", ".", "0">> >>}

\* The lines typed at the prompts; input() raises EOFError when none is left.
StdinChoices ==
    {<<>>,
     << <<"7">> >>,
     << <<"7">>, <<"8">> >>,
     << <<"x">>, <<"8">> >>,
     << <<"7">>, <<"-", "1", "_", "0">> >>,
     << <<"7">>, <<>> >>}

InitMain ==
    /\ \E present \in {AllFiles, AllFiles \ {"thesis_matching_agent.py"}} :
          InitWith(AgentConfigs, present)
    /\ functions = AllFiles

\* The process starts: the state of InitMain with the command line given.
MainStart ==
    /\ pc = "new"
    /\ cli = NoCli
    /\ \E argv \in ArgChoices, stdin \in StdinChoices :
          cli' = [argv |-> argv, stdin |-> stdin, prompts |-> 0, ids |-> <<>>,
                  exit_code |-> <<>>]
    /\ pc' = "main"
    /\ UNCHANGED <<agent_configs, files, pitch_id, investor_id, context, worker,
                   collected, seq_i, last_output, calls, combine_calls, ret, store, now,
                   reports, raw_text, extracted, failed, functions, written>>

\* len(sys.argv) > 2: both identifiers are converted; ValueError exits with 1.
MainArguments ==
    /\ pc = "main"
    /\ Len(cli.argv) >= 2
    /\ LET p == PyInt(cli.argv[1])
           i == PyInt(cli.argv[2])
       IN  IF p.ok /\ i.ok
           THEN /\ cli' = [cli EXCEPT !.ids = <<p.v, i.v>>]
                /\ pc' = "new"
           ELSE /\ cli' = [cli EXCEPT !.exit_code = <<1>>]
                /\ pc' = "exited"
    /\ UNCHANGED <<agent_configs, files, pitch_id, investor_id, context, worker,
                   collected, seq_i, last_output, calls, combine_calls, ret, store, now,
                   reports, raw_text, extracted, failed, functions, written>>

\* Otherwise the two identifiers are asked for, one input() after the other:
\* a ValueError exits with 1, an EOFError is caught by nothing and ends the
\* interpreter with 1.
MainPrompts ==
    /\ pc = "main"
    /\ Len(cli.argv) < 2
    /\ LET first == IF Len(cli.stdin) >= 1 THEN PyInt(cli.stdin[1]) ELSE [ok |-> FALSE, v |-> None]
           second == IF Len(cli.stdin) >= 2 THEN PyInt(cli.stdin[2]) ELSE [ok |-> FALSE, v |-> None]
       IN  IF first.ok /\ second.ok
           THEN /\ cli' = [cli EXCEPT !.ids = <<first.v, second.v>>, !.prompts = 2]
                /\ pc' = "new"
           ELSE /\ cli' = [cli EXCEPT !.exit_code = <<1>>,
                                      !.prompts = IF first.ok THEN 2 ELSE 1]
                /\ pc' = "exited"
    /\ UNCHANGED <<agent_configs, files, pitch_id, investor_id, context, worker,
                   collected, seq_i, last_output, calls, combine_calls, ret, store, now,
                   reports, raw_text, extracted, failed, functions, written>>

\* orchestrator = AgentOrchestrator()
MainConstruct == cli.ids # <<>> /\ Construct

\* orchestrator.orchestrate(pitch_id, investor_id)
MainOrchestrate == cli.ids # <<>> /\ OrchestrateWith(cli.ids[1], cli.ids[2])

\* The exit code after the call: 0 after the report of a success is printed;
\* sys.exit(1) after a failure and in the except clauses; 1 as well for the
\* SystemExit(1) of a stage module and for an exception of the constructor.
ExitCode_zero(r) == IF r.kind = "return" THEN 0 ELSE 1

ExitCode(r) == IF r.kind = "return" /\ r.success THEN 0 ELSE 1

MainExit ==
    /\ pc \in {"returned", "raised", "rejected"}
    /\ cli.ids # <<>>
    /\ cli' = [cli EXCEPT !.exit_code = <<ExitCode(ret)>>]
    /\ pc' = "exited"
    /\ UNCHANGED <<agent_configs, files, pitch_id, investor_id, context, worker,
                   collected, seq_i, last_output, calls, combine_calls, ret, store, now,
                   reports, raw_text, extracted, failed, functions, written>>

NextMain ==
    \/ MainStart
    \/ MainArguments
    \/ MainPrompts
    \/ MainConstruct
    \/ MainOrchestrate
    \/ \E w \in DOMAIN worker : WorkerStart(w)
    \/ \E w \in DOMAIN worker : WorkerSave(w)
    \/ \E w \in DOMAIN worker : WorkerFinish(w)
    \/ \E w \in DOMAIN worker : CollectResult(w)
    \/ \E w \in DOMAIN worker : CollectFailure(w)
    \/ JoinReturnFalse
    \/ JoinPropagate
    \/ SequentialStage
    \/ CombineResults
    \/ MainExit

SpecMain == InitMain /\ [][NextMain]_vars

(***************************************************************************)
(* thesis_matching_agent.parse_crew_output(result_str), on the lexemes of  *)
(* the crew's text; a code fence is one lexeme.                            *)
(***************************************************************************)
FenceJson == Tok("fencejson", "json")   \* the opening of a json code block
Fence == Tok("fence", "")             \* a bare code fence
IsFence(tk) == tk.k \in {"fence", "fencejson"}

\* str.lower() on the names the case-insensitive pattern looks for.
Lower(s) ==
    CASE s = "ThesisMatching" -> "thesismatching"
      [] s = "InvestmentSummary" -> "investmentsummary"
      [] s = "FinalInvestmentMatchAnalysis" -> "finalinvestmentmatchanalysis"
      [] OTHER -> s

\* "<name>" matches at lexeme i.
NamedAt(toks, i, name, ignorecase) ==
    /\ toks[i].k = "str"
    /\ \/ toks[i].s = name
       \/ ignorecase /\ Lower(toks[i].s) = Lower(name)

\* The first lexeme after i that is "<name>"; Len(toks) + 1 when there is none.
NextNamed(toks, i, name, ignorecase) ==
    LET S == {a \in (i + 1)..Len(toks) : NamedAt(toks, a, name, ignorecase)}
    IN  IF S = {} THEN Len(toks) + 1 ELSE Min(S)

NoMatch == [found |-> FALSE, s |-> <<>>]

\* The lexemes of toks at the positions in keep, in order.
RECURSIVE Kept(_, _, _)
Kept(toks, keep, i) ==
    IF i > Len(toks) THEN <<>>
    ELSE (IF i \in keep THEN <<toks[i]>> ELSE <<>>) \o Kept(toks, keep, i + 1)

\* Strategy 1: (\{.*"ThesisMatching".*"InvestmentSummary".*
\* "FinalInvestmentMatchAnalysis".*\}) with DOTALL | IGNORECASE: from the first
\* "{" the three names follow in order, to the last "}".
FullObjectMatch(toks) ==
    LET closes == {j \in 1..Len(toks) : toks[j].k = "rb"}
        last == IF closes = {} THEN 0 ELSE Max(closes)
        chain(i) ==
            NextNamed(toks,
                      NextNamed(toks, NextNamed(toks, i, "ThesisMatching", TRUE),
                                "InvestmentSummary", TRUE),
                      "FinalInvestmentMatchAnalysis", TRUE)
        starts == {i \in 1..Len(toks) : toks[i].k = "lb" /\ chain(i) < last}
    IN  IF starts = {} THEN NoMatch
        ELSE [found |-> TRUE, s |-> SubSeq(toks, Min(starts), last)]

\* Strategy 2: the json code block pattern with DOTALL: what lies between the first
\* opening fence and the next fence.
FencedMatch(toks) ==
    LET closing(i) == {j \in (i + 1)..Len(toks) : IsFence(toks[j])}
        starts == {i \in 1..Len(toks) : toks[i].k = "fencejson" /\ closing(i) # {}}
    IN  IF starts = {} THEN NoMatch
        ELSE [found |-> TRUE,
              s |-> SubSeq(toks, Min(starts) + 1, Min(closing(Min(starts))) - 1)]

\* Strategy 3: {.*"ThesisMatching".*} with DOTALL, case-sensitive.
LooseObjectMatch(toks) ==
    LET closes == {j \in 1..Len(toks) : toks[j].k = "rb"}
        last == IF closes = {} THEN 0 ELSE Max(closes)
        starts == {i \in 1..Len(toks) :
                     toks[i].k = "lb" /\ NextNamed(toks, i, "ThesisMatching", FALSE) < last}
    IN  IF starts = {} THEN NoMatch
        ELSE [found |-> TRUE, s |-> SubSeq(toks, Min(starts), last)]

extraction_strategies(toks) ==
    <<FullObjectMatch(toks), FencedMatch(toks), LooseObjectMatch(toks)>>

\* advanced_json_cleanup: the fences go, "}{" after a literal becomes "}, {",
\* a comma right before "}" goes, then a comma right before "]".
advanced_json_cleanup(toks) ==
    LET bare == Kept(toks, {i \in 1..Len(toks) : ~IsFence(toks[i])}, 1)
        glued == {i \in 2..(Len(bare) - 1) :
                    bare[i].k = "rb" /\ bare[i - 1].k = "str" /\ bare[i + 1].k = "lb"}
        RECURSIVE Separated(_)
        Separated(i) ==
            IF i > Len(bare) THEN <<>>
            ELSE (IF i \in glued THEN <<bare[i], Comma>> ELSE <<bare[i]>>)
                 \o Separated(i + 1)
        sep == Separated(1)
        NoCommaBefore(s, kind) ==
            Kept(s, {i \in 1..Len(s) :
                       ~(s[i].k = "comma" /\ i < Len(s) /\ s[i + 1].k = kind)}, 1)
    IN  NoCommaBefore(NoCommaBefore(sep, "rb"), "rsq")

\* One turn of the loop over the strategies: no match, an empty cleaned text
\* or a JSONDecodeError passes to the next strategy.
Attempt(m) ==
    IF ~m.found THEN [ok |-> FALSE, v |-> None]
    ELSE LET cleaned == advanced_json_cleanup(m.s) IN
         IF cleaned = <<>> THEN [ok |-> FALSE, v |-> None]
         ELSE JsonLoads(cleaned)

ThesisCriteria ==
    {"Industry", "Geography", "Stage", "Funding Ask", "Check Size", "Exit Horizon",
     "Technology", "Business Model", "Competitors"}

SummaryScores == {"SignalStrength", "InnovationIndex", "MarketPulse", "ThesisFitScore"}

FinalFields ==
    {"FinalThesisMatchScore", "InvestorType", "InvestmentStage", "FundingAsk",
     "Technology", "Geography", "MarketSize", "CompetitiveLandscape",
     "RegulatoryControls"}

\* The record returned when no strategy parsed: lines 486-563.
FallbackAnalysis ==
    Dict([s \in {"ThesisMatching", "InvestmentSummary", "FinalInvestmentMatchAnalysis"} |->
        CASE s = "ThesisMatching" ->
               Dict([c \in ThesisCriteria |->
                   Dict([f \in {"Pitch", "Investor", "Match"} |->
                       IF f = "Match"
                       THEN Text("Unable to determine - JSON parsing error")
                       ELSE Text("N/A")])])
          [] s = "InvestmentSummary" ->
               Dict([c \in SummaryScores |->
                   Dict([f \in {"Score", "Comments"} |->
                       IF f = "Score" THEN Text("N/A")
                       ELSE Text("Unable to calculate due to JSON parsing error")])])
          [] OTHER ->
               Dict([f \in FinalFields |->
                   Text("Unable to determine due to parsing error")])])

\* The first strategy that matched decides: a text it cannot parse is an error.
parse_crew_output_firstmatch(toks) ==
    LET ms == extraction_strategies(toks)
        hit == {k \in 1..3 : ms[k].found}
    IN  IF hit = {} THEN [kind |-> "return", v |-> FallbackAnalysis]
        ELSE IF Attempt(ms[Min(hit)]).ok
             THEN [kind |-> "return", v |-> Attempt(ms[Min(hit)]).v]
             ELSE [kind |-> "raise", v |-> None]

parse_crew_output(toks) ==
    LET ms == extraction_strategies(toks)
        good == {k \in 1..3 : Attempt(ms[k]).ok}
    IN  IF good = {} THEN [kind |-> "return", v |-> FallbackAnalysis]
        ELSE [kind |-> "return", v |-> Attempt(ms[Min(good)]).v]

CrewAlphabet ==
    {LB, RB, Colon, Comma, Lit("ThesisMatching"), Lit("High"), FenceJson, Fence,
     NumTok("5")}

ThesisObject ==
    <<LB, Lit("ThesisMatching"), Colon, Lit("High"), Comma, Lit("InvestmentSummary"),
      Colon, LB, RB, Comma, Lit("FinalInvestmentMatchAnalysis"), Colon, LB, RB, RB>>

LongCrewTexts ==
    {ThesisObject,
     <<Word("Here is the result"), FenceJson>> \o ThesisObject \o <<Fence>>,
     <<LB, Lit("thesismatching"), Colon, Lit("High"), Comma, Lit("investmentsummary"),
       Colon, LB, RB, Comma, Lit("finalinvestmentmatchanalysis"), Colon, LB, RB, Comma,
       RB>>,
     <<LB, Lit("ThesisMatching"), Lit("InvestmentSummary"),
       Lit("FinalInvestmentMatchAnalysis"), RB, FenceJson, LB, Lit("ThesisMatching"),
       Colon, Lit("High"), RB, Fence>>,
     <<FenceJson, LSQ, NumTok("5"), Comma, RSQ, Fence, LB, Lit("ThesisMatching"), RB>>,
     <<Word("Here is the result"), LB, Lit("ThesisMatching"), Colon, LB, Lit("Industry"),
       Colon, Lit("High"), RB, LB, RB, RB>>,
     <<FenceJson, Fence, LB, Lit("ThesisMatching"), Colon, NumTok("5"), Comma, RB,
       Word("Here is the result")>>}

CrewTexts == UNION {[1..n -> CrewAlphabet] : n \in 0..MaxTextLen} \cup LongCrewTexts

InitParse ==
    /\ raw_text \in CrewTexts
    /\ pc = "parse"
    /\ agent_configs = AgentConfigs
    /\ files = AllFiles
    /\ pitch_id = Num("7")
    /\ investor_id = Num("7")
    /\ context = EmptyMap
    /\ worker = <<>>
    /\ collected = {}
    /\ seq_i = 1
    /\ last_output = None
    /\ calls = <<>>
    /\ failed = {}
    /\ combine_calls = 0
    /\ ret = NoReturn
    /\ store = {}
    /\ now = 0
    /\ reports = <<>>
    /\ extracted = NotRun
    /\ functions = AllFiles
    /\ written = <<>>
    /\ cli = NoCli

\* parse_crew_output(str(result)) on the crew's text.
ParseCrewOutput ==
    /\ pc = "parse"
    /\ extracted = NotRun
    /\ extracted' = parse_crew_output(raw_text)
    /\ UNCHANGED <<pc, agent_configs, files, pitch_id, investor_id, context, worker,
                   collected, seq_i, last_output, calls, combine_calls, ret, store, now,
                   reports, raw_text, failed, functions, written, cli>>

NextParse == ParseCrewOutput

SpecParse == InitParse /\ [][NextParse]_vars

(***************************************************************************)
(* The claims.                                                             *)
(***************************************************************************)
StageCalled(name) == \E c \in 1..Len(calls) : calls[c][1] = name

SequentialCalled ==
    \E k \in 1..Len(sequential_configs) : StageCalled(sequential_configs[k].name)

ParallelFailed ==
    \E w \in 1..Len(parallel_configs) : parallel_configs[w].name \in failed

OrchestrateEnded == pc \in {"returned", "raised"}

\* C1: if a stage of the parallel level raises, orchestrate returns
\* (False, None), no sequential handler is invoked and combine_results is
\* never called.
C1_ParallelFailureReturnsFalse ==
    (OrchestrateEnded /\ ParallelFailed)
        => /\ ret = Returned(FALSE, None)
           /\ ~SequentialCalled
           /\ combine_calls = 0

\* C2: every top-level key of the primary value is in the report of
\* combine_results with the primary's value, whatever its name.
C2_PrimaryKeysKept ==
    \A i \in 1..Len(reports) :
        LET primary == Get(context, "investment_summary", Dict(EmptyMap)) IN
        (reports[i].raised = "" /\ primary.t = "dict")
            => \A k \in DOMAIN primary.d :
                  k \in DOMAIN reports[i].v.d /\ reports[i].v.d[k] = primary.d[k]

\* A record with every required section and every required field of each.
SchemaComplete(v) ==
    /\ v.t = "dict"
    /\ {"Executive Summary", "Final Recommendation"} \subseteq DOMAIN v.d
    /\ v.d["Executive Summary"] # None
    /\ v.d["Final Recommendation"] # None
    /\ \A sec \in required_sections :
          /\ sec \in DOMAIN v.d
          /\ v.d[sec].t = "dict"
          /\ \A f \in SectionFields[sec] : f \in DOMAIN v.d[sec].d /\ v.d[sec].d[f] # None

\* C3: for any text of the analysis service the extraction returns a record
\* with every required section and every required field.
C3_ExtractionSchemaComplete ==
    extracted.kind = "return" => SchemaComplete(extracted.v)

C5_IdenticalReports ==
    Len(reports) >= 2 => reports[1] = reports[2]

\* The report without the processing_timestamp of its metadata block.
WithoutTimestamp(v) ==
    IF v.t = "dict" /\ "metadata" \in DOMAIN v.d /\ v.d["metadata"].t = "dict"
    THEN Dict(Put(v.d, "metadata",
                  Dict([k \in DOMAIN v.d["metadata"].d \ {"processing_timestamp"} |->
                           v.d["metadata"].d[k]])))
    ELSE v

\* C5, amended: two calls of combine_results on the same context end the same
\* way (the same exception, or reports that agree on every field other than
\* metadata.processing_timestamp), and the two timestamps are the clock
\* readings of the two calls.
C5_IdenticalButTimestamp ==
    \A i, j \in 1..Len(reports) :
        /\ reports[i].raised = reports[j].raised
        /\ WithoutTimestamp(reports[i].v) = WithoutTimestamp(reports[j].v)
        /\ reports[i].raised = ""
              => reports[i].v.d["metadata"].d["processing_timestamp"].s[1].c <= now

C5_Witness ==
    /\ Len(reports) = 2
    /\ reports[1].raised = ""
    /\ reports[1].v # reports[2].v

\* The values the stages can leave in the context of C6: strings, records, None.
ValuesInScope(ctx) ==
    \A k \in DOMAIN ctx \ {"pitch_id", "investor_id"} : ctx[k].t \in {"str", "dict", "none"}

\* C6: combine_results never raises on a context whose values are strings,
\* records or None.
C6_CombineNeverRaises ==
    ValuesInScope(context) => \A i \in 1..Len(reports) : reports[i].raised = ""

\* C7: no sequential stage starts or reads the context before every stage of
\* the parallel level has finished and its value has been written.
C7_SequentialAfterParallel ==
    (pc \in {"sequential", "combine"} \/ seq_i > 1 \/ SequentialCalled
     \/ \E k \in 1..Len(sequential_configs) : sequential_configs[k].name \in failed)
        => \A w \in 1..Len(parallel_configs) :
              /\ w \in DOMAIN worker
              /\ worker[w].st = "done"
              /\ w \in collected
              /\ parallel_configs[w].output_key \in DOMAIN context

C7_Witness ==
    /\ pc = "sequential"
    /\ seq_i = 2
    /\ StageCalled("Investment Settings Agent")
    /\ StageCalled("Pitch Deck Processing Agent")
    /\ StageCalled("Thesis Matching Agent")

\* C8: a stage whose input is None in the context is a stage failure:
\* orchestrate returns (False, None).
C8_NoInputIsFailure ==
    (pc = "returned" /\ (pitch_id = None \/ investor_id = None))
        => ret = Returned(FALSE, None)

\* C9: if a sequential stage raises, no later sequential handler is invoked,
\* combine_results is not called and orchestrate returns (False, None).
C9_SequentialFailureAborts ==
    \A k \in 1..Len(sequential_configs) :
        sequential_configs[k].name \in failed
            => /\ pc = "returned"
               /\ ret = Returned(FALSE, None)
               /\ combine_calls = 0
               /\ \A j \in (k + 1)..Len(sequential_configs) :
                     ~StageCalled(sequential_configs[j].name)

C9_Witness ==
    /\ pc = "returned"
    /\ "Investment Summary Agent" \in failed
    /\ StageCalled("Thesis Matching Agent")

\* C10: when orchestrate returns (False, None), no stage of the run has
\* written to the persistent store.
C10_NothingPersistedOnFailure ==
    (pc = "returned" /\ ret = Returned(FALSE, None)) => store = {}

\* The number of context writes the stage loops made for a stage.
WritesOf(name) == Cardinality({k \in 1..Len(written) : written[k][1] = name})

ParallelCompleted(w) ==
    /\ w \in DOMAIN worker
    /\ worker[w].st = "done"
    /\ worker[w].exc = ""
    /\ StageCalled(parallel_configs[w].name)

SequentialCompleted(k) ==
    /\ StageCalled(sequential_configs[k].name)
    /\ sequential_configs[k].name \notin failed

\* C11, as stated: in every run, failing runs included, a stage whose handler
\* completed without raising causes exactly one context write, and a stage
\* whose handler did not complete causes none.
C11_OneWritePerCompletedStage ==
    OrchestrateEnded =>
        /\ \A w \in 1..Len(parallel_configs) :
              WritesOf(parallel_configs[w].name) = IF ParallelCompleted(w) THEN 1 ELSE 0
        /\ \A k \in 1..Len(sequential_configs) :
              WritesOf(sequential_configs[k].name) = IF SequentialCompleted(k) THEN 1 ELSE 0

\* C11, amended: a stage causes at most one context write, at its output_key;
\* the write is made when the stage loop receives the value of the stage's
\* call (None when the input was missing), so a stage whose call raised causes
\* none, a parallel stage has one exactly when its result was collected, and
\* in a run that returns success every stage has exactly one.
C11_OneWritePerCollectedStage ==
    /\ \A k \in 1..Len(written) :
          \E i \in 1..Len(agent_configs) :
              written[k] = <<agent_configs[i].name, agent_configs[i].output_key>>
    /\ \A i \in 1..Len(agent_configs) :
          /\ WritesOf(agent_configs[i].name) <= 1
          /\ agent_configs[i].name \in failed => WritesOf(agent_configs[i].name) = 0
          /\ WritesOf(agent_configs[i].name) = 1
                => agent_configs[i].output_key \in DOMAIN context
    /\ \A w \in 1..Len(parallel_configs) :
          WritesOf(parallel_configs[w].name) = 1
              <=> (w \in collected /\ worker[w].exc = "")
    /\ \A k \in 1..Len(sequential_configs) :
          WritesOf(sequential_configs[k].name) = 1 <=> k < seq_i
    /\ (pc = "returned" /\ ret.success)
          => \A i \in 1..Len(agent_configs) : WritesOf(agent_configs[i].name) = 1

C11_Witness ==
    /\ pc = "returned"
    /\ ret = Returned(FALSE, None)
    /\ \E w \in 1..Len(parallel_configs) :
          ParallelCompleted(w) /\ WritesOf(parallel_configs[w].name) = 0

\* A stage whose handler cannot be resolved: the file or the function is missing.
Unresolvable(i) ==
    agent_configs[i].filename \notin files \/ agent_configs[i].filename \notin functions

GivenPrimary == Get(context, "investment_summary", Absent)

\* C13: when the primary value is a string that does not parse as structured
\* data, the report of combine_results has a field "Summary Text" holding that
\* string verbatim.
C13_UnparsedStringKept ==
    (GivenPrimary.t = "str" /\ ~JsonLoads(GivenPrimary.s).ok)
        => \A i \in 1..Len(reports) :
              /\ reports[i].raised = ""
              /\ "Summary Text" \in DOMAIN reports[i].v.d
              /\ reports[i].v.d["Summary Text"] = GivenPrimary

C13_Witness ==
    /\ Len(reports) >= 1
    /\ GivenPrimary = Str(<<Word("plain prose")>>)
    /\ reports[1].v.d["Summary Text"] = Str(<<Word("plain prose")>>)

\* C14: when the primary value is empty (absent, None, an empty record or an
\* empty string), combine_results does not fail and the report is based on the
\* placeholder record saying that no detailed summary is available.
C14_EmptyPrimaryPlaceholder ==
    GivenPrimary \in {Absent, None, Dict(EmptyMap), Str(<<>>)}
        => \A i \in 1..Len(reports) :
              /\ reports[i].raised = ""
              /\ reports[i].v.d["Executive Summary"] = Text("No detailed summary available")

\* Every stage's handler was invoked, none raised and none returned an error
\* record, and orchestrate returned success.
AllStagesSucceeded ==
    /\ pc = "returned"
    /\ ret.success
    /\ \A i \in 1..Len(agent_configs) :
          /\ StageCalled(agent_configs[i].name)
          /\ agent_configs[i].name \notin failed
          /\ context[agent_configs[i].output_key] # ErrorRecord

\* C15: when the four stages succeed, orchestrate returns (True, report); the
\* report's metadata lists the four stage names and the report has a section
\* derived from the output of each secondary stage: thesis matching, pitch
\* processing and investor settings.
C15_AllSectionsPresent ==
    AllStagesSucceeded =>
        /\ ret.report.d["metadata"].d["agents_used"] = AgentsUsed
        /\ {"ThesisMatching", "PitchAnalysis", "InvestorProfile"} \subseteq DOMAIN ret.report.d

\* The stage names listed in the metadata block of a report.
ListedStages(report) ==
    LET l == report.d["metadata"].d["agents_used"].l IN {l[k] : k \in 1..Len(l)}

\* C16: the stage names in the metadata block of the report are exactly the
\* stages that executed successfully in the run that produced the context: a
\* stage that did not run or left no output in the context is not listed.
C16_ListedStagesExecuted ==
    (pc = "returned" /\ ret.success)
        => \A i \in 1..Len(agent_configs) :
              Text(agent_configs[i].name) \in ListedStages(ret.report)
                  <=> /\ StageCalled(agent_configs[i].name)
                      /\ agent_configs[i].name \notin failed
                      /\ Get(context, agent_configs[i].output_key, None) # None

\* The sub-sections combine_results looks for in each secondary value.
ExpectedSubsections ==
    ("thesis_matching" :> {"ThesisMatching", "InvestmentSummary", "FinalInvestmentMatchAnalysis"})
    @@ ("pitch_processing" :> {"pitch_deck_data", "Signal Strength", "Innovation Index",
                               "Market Pulse"})
    @@ ("investor_settings" :> {"investor_id", "structured_data", "full_text"})

UnexpectedShape(k, v) ==
    \/ v.t \in {"str", "none", "list"}
    \/ v.t = "dict" /\ DOMAIN v.d \cap ExpectedSubsections[k] = {}

Without(ctx, k) == [x \in DOMAIN ctx \ {k} |-> ctx[x]]

\* The clock reading of the call that made a report.
CallClock(r) ==
    IF r.raised = "" THEN r.v.d["metadata"].d["processing_timestamp"].s[1].c ELSE 0

\* C17: a secondary value of unexpected shape (a string, None, a list or a
\* record without the expected sub-sections) is skipped for its section only:
\* the call ends as it ends, with the same report, on the context without
\* that value.
C17_UnexpectedSecondarySkipped ==
    \A i \in 1..Len(reports) :
        \A k \in DOMAIN ExpectedSubsections \cap DOMAIN context :
            UnexpectedShape(k, context[k])
                => reports[i] = combine_results(Without(context, k), CallClock(reports[i]))

C17_Witness ==
    /\ Len(reports) >= 1
    /\ reports[1].raised = ""
    /\ Get(context, "thesis_matching", Absent) = Text("prose")
    /\ Get(context, "pitch_processing", Absent) = Str(PitchJson)
    /\ Get(context, "investor_settings", Absent) = ErrorRecord

\* Here is the result: {"Signal Strength": {"rating": "High"}
TruncatedText ==
    <<Word("Here is the result"), Colon, LB, Lit("Signal Strength"), Colon, LB,
      Lit("rating"), Colon, Lit("High"), RB>>

\* C18: for the text above (unbalanced braces, no other section) the
\* extraction returns a document in which Signal Strength.rating is "High"
\* and every other required field holds the fallback marker.
C18_TruncatedTextRating ==
    (raw_text = TruncatedText /\ extracted.kind = "return" /\ extracted.v # ErrorSummary)
        => /\ extracted.v.t = "dict"
           /\ "Signal Strength" \in DOMAIN extracted.v.d
           /\ "rating" \in DOMAIN extracted.v.d["Signal Strength"].d
           /\ extracted.v.d["Signal Strength"].d["rating"] = Text("High")
           /\ \A sec \in required_sections : \A f \in SectionFields[sec] :
                 extracted.v.d[sec].d[f] = Text("Unable to extract")

\* C19: when a parallel stage fails the other parallel stages are not
\* cancelled: the failure is returned only after every parallel worker has
\* finished, so no parallel handler is running when orchestrate ends.
C19_NoHandlerRunningAtReturn ==
    OrchestrateEnded
        => \A w \in DOMAIN worker : worker[w].st = "done" /\ worker[w].todo = <<>>

C19_Witness ==
    /\ pc = "returned"
    /\ ParallelFailed
    /\ \E w \in DOMAIN worker :
          /\ w \notin collected
          /\ ParallelCompleted(w)
          /\ worker[w].result # ErrorRecord
          /\ store # {}

\* The position of a stage in the declaration list.
Position(name) == CHOOSE i \in 1..Len(agent_configs) : agent_configs[i].name = name

IsParallel(name) == agent_configs[Position(name)].parallel

\* C20: whatever the declaration order, the handlers of the parallel stages
\* are all invoked before any sequential stage, and the sequential stages are
\* invoked one at a time in declaration order, each after the previous one
\* has returned and its value has been written.
C20_LevelsInDeclarationOrder ==
    /\ \A a, b \in 1..Len(calls) :
          (a < b /\ ~IsParallel(calls[a][1]))
              => /\ ~IsParallel(calls[b][1])
                 /\ Position(calls[a][1]) < Position(calls[b][1])
    /\ SequentialCalled => \A w \in DOMAIN worker : worker[w].st = "done"
    /\ \A k \in 1..Len(sequential_configs) :
          StageCalled(sequential_configs[k].name)
              => \A j \in 1..(k - 1) : WritesOf(sequential_configs[j].name) = 1

C20_Witness ==
    /\ pc = "returned"
    /\ ret.success
    /\ ~agent_configs[1].parallel
    /\ agent_configs[1].name = "Investment Summary Agent"
    /\ Len(calls) = Len(agent_configs)

\* One step keeps every binding the context has (the context is empty until
\* orchestrate creates it).
BindingsKept ==
    \A k \in DOMAIN context : k \in DOMAIN context' /\ context'[k] = context[k]

\* No key is written twice by the stage loops, and none of them is a seed key.
KeysWrittenOnce ==
    /\ \A a, b \in 1..Len(written) : a # b => written[a][2] # written[b][2]
    /\ \A a \in 1..Len(written) : written[a][2] \notin {"pitch_id", "investor_id"}
    /\ pc \notin {"new", "ready", "rejected"}
          => context["pitch_id"] = pitch_id /\ context["investor_id"] = investor_id

\* C21: during one orchestrate call every context key is assigned at most
\* once: the seed keys only when the context is created, each stage output
\* key at most once, so a binding of the context never changes.
C21_ContextWriteOnce == []KeysWrittenOnce /\ [][BindingsKept]_vars

C21_Witness ==
    /\ pc = "returned"
    /\ ret.success
    /\ Len(written) = Len(agent_configs)
    /\ \A i \in 1..Len(agent_configs) : context[agent_configs[i].output_key] # None

\* C22: the scheduler never retries: within one orchestrate call each stage
\* handler is invoked at most once, and none is invoked after it has raised.
C22_NoRetry ==
    \A a, b \in 1..Len(calls) : a # b => calls[a][1] # calls[b][1]

C22_Witness ==
    /\ OrchestrateEnded
    /\ \E i \in 1..Len(agent_configs) :
          /\ agent_configs[i].name \in failed
          /\ StageCalled(agent_configs[i].name)
          /\ agent_configs[i].parallel

\* The two texts the identifiers are converted from: the first two arguments
\* when there are two, otherwise the typed lines.
GivenIdTexts == IF Len(cli.argv) >= 2 THEN cli.argv ELSE cli.stdin

MalformedIds == \E k \in 1..2 : k > Len(GivenIdTexts) \/ ~PyInt(GivenIdTexts[k]).ok

\* C23: the command line exits with 0 exactly when orchestrate returned
\* success, with 1 when orchestrate returned failure or raised, and with a
\* non-zero code, before anything is run, when an identifier is not an
\* integer; with fewer than two arguments the identifiers are prompted for.
C23_ExitCodes ==
    cli.exit_code # <<>> =>
        /\ cli.exit_code = <<0>> <=> (ret.kind = "return" /\ ret.success)
        /\ (ret.kind = "raise" \/ (ret.kind = "return" /\ ~ret.success))
              => cli.exit_code = <<1>>
        /\ MalformedIds => (cli.exit_code # <<0>> /\ calls = <<>> /\ ret = NoReturn)
        /\ Len(cli.argv) < 2 <=> cli.prompts > 0
        /\ cli.ids # <<>>
              => /\ cli.ids = <<PyInt(GivenIdTexts[1]).v, PyInt(GivenIdTexts[2]).v>>
                 /\ Len(cli.argv) < 2 => cli.prompts = 2
                 /\ ret # NoReturn

C23_Witness ==
    /\ cli.exit_code = <<0>>
    /\ cli.prompts = 2
    /\ cli.ids = <<Num("7"), Num("-10")>>
    /\ ret.success

\* The strings that mark a field of the fallback record as not determined.
FallbackMarkers ==
    {Text("N/A"), Text("Unable to determine - JSON parsing error"),
     Text("Unable to calculate due to JSON parsing error"),
     Text("Unable to determine due to parsing error")}

\* Every leaf of the value v, a record of records down to depth 3, is a marker.
AllMarkers(v) ==
    LET leaf(x) == x \in FallbackMarkers
        level2(x) == x.t = "dict" /\ \A k \in DOMAIN x.d : leaf(x.d[k])
        level1(x) == x.t = "dict" /\ DOMAIN x.d # {}
                     /\ \A k \in DOMAIN x.d : leaf(x.d[k]) \/ level2(x.d[k])
    IN  v.t = "dict" /\ \A k \in DOMAIN v.d : level1(v.d[k])

\* The parse of the k-th strategy's cleaned match on the text.
Parsed(k) == Attempt(extraction_strategies(raw_text)[k])

\* C24: parse_crew_output never raises on a string: it returns the parse of the
\* first strategy, in the order full object, fenced block, loose object, whose
\* cleaned match parses, and when none parses the fallback record with the
\* sections ThesisMatching, InvestmentSummary and FinalInvestmentMatchAnalysis,
\* every field of which is a fallback marker.
C24_ParseNeverRaises ==
    (pc = "parse" /\ extracted # NotRun) =>
        /\ extracted.kind = "return"
        /\ \A k \in 1..3 :
             (Parsed(k).ok /\ \A h \in 1..(k - 1) : ~Parsed(h).ok)
                 => extracted.v = Parsed(k).v
        /\ (\A k \in 1..3 : ~Parsed(k).ok) =>
             /\ extracted.v.t = "dict"
             /\ DOMAIN extracted.v.d =
                  {"ThesisMatching", "InvestmentSummary", "FinalInvestmentMatchAnalysis"}
             /\ AllMarkers(extracted.v)

\* The full-object strategy matched a text that does not parse, and the fenced
\* block after it gave the result.
C24_Witness ==
    /\ pc = "parse"
    /\ extracted # NotRun
    /\ extracted.kind = "return"
    /\ FullObjectMatch(raw_text).found
    /\ ~Parsed(1).ok
    /\ Parsed(2).ok
    /\ extracted.v = Dict("ThesisMatching" :> Text("High"))

\* The named sub-sections of a pitch record that combine_results looks for.
PitchSubsections == {"Signal Strength", "Innovation Index", "Market Pulse"}

\* C25: when context["pitch_processing"] is a record and the report has no
\* PitchAnalysis yet, every named sub-section present in it (Signal Strength,
\* Innovation Index, Market Pulse) is copied into PitchAnalysis: none is
\* dropped because another one is present.
C25_AllSubsectionsCopied ==
    \A i \in 1..Len(reports) :
        LET pitch == Get(context, "pitch_processing", Absent) IN
        (/\ reports[i].raised = ""
         /\ pitch.t = "dict"
         /\ "pitch_deck_data" \notin DOMAIN pitch.d
         /\ "PitchAnalysis" \notin DOMAIN PrimaryOf(context).d)
            => \A s \in PitchSubsections \cap DOMAIN pitch.d :
                  /\ "PitchAnalysis" \in DOMAIN reports[i].v.d
                  /\ s \in DOMAIN reports[i].v.d["PitchAnalysis"].d
                  /\ reports[i].v.d["PitchAnalysis"].d[s] = pitch.d[s]

\* C26: orchestrate returns (False, None) exactly when some stage's handler
\* invocation (loading its module and looking up its function included)
\* raised; when none raised, whatever the handlers returned (None and error
\* records included), every stage's value is in the context and the
\* aggregation ran.
C26_FalseIffHandlerRaised ==
    OrchestrateEnded =>
        /\ (ret = Returned(FALSE, None)) <=> (failed # {})
        /\ failed = {} =>
              /\ combine_calls = 1
              /\ \A i \in 1..Len(agent_configs) :
                    agent_configs[i].output_key \in DOMAIN context

\* The seed identifier stored at the input_key of the stage called name.
SeedOf(name) ==
    LET config == CHOOSE c \in {agent_configs[i] : i \in 1..Len(agent_configs)} :
                      c.name = name
    IN  IF config.input_key = "investor_id" THEN investor_id ELSE pitch_id

ParallelLevel == pc \in {"collect", "join_false", "join_exit"}

\* The step is the calling thread storing the result of a completed future.
CallerStores ==
    /\ pc = "collect"
    /\ worker' = worker
    /\ \E w \in DOMAIN worker \ collected :
          /\ worker[w].st = "done"
          /\ collected' = collected \cup {w}
          /\ context' = Put(context, parallel_configs[w].output_key, worker[w].result)

\* C28: while the parallel level runs, the context is written only by the
\* calling thread, in the result-collection loop: a step of a worker thread
\* leaves the context as it is, and the seed keys pitch_id and investor_id,
\* which the workers read, keep their values, in every interleaving.
C28_OnlyCallerWrites ==
    [][ParallelLevel =>
          /\ worker' # worker => context' = context
          /\ context' # context => CallerStores
          /\ {"pitch_id", "investor_id"} \subseteq DOMAIN context'
          /\ context'["pitch_id"] = context["pitch_id"]
          /\ context'["investor_id"] = context["investor_id"]]_vars

\* The calling thread has stored one result while another worker has not yet
\* read its input and a handler was called.
C28_Witness ==
    /\ pc = "collect"
    /\ collected # {}
    /\ \E w \in DOMAIN worker : worker[w].st = "pending"
    /\ \E w \in collected : parallel_configs[w].output_key \in DOMAIN context
    /\ calls # <<>>

OrchestrateRunning == pc \in {"collect", "join_false", "join_exit", "sequential", "combine"}

\* C30: when every handler invocation ends and every thread is scheduled,
\* every orchestrate call returns or raises: the pool has a thread for each
\* parallel stage, so the wait for the workers at the end of the parallel
\* level ends.
C30_OrchestrateTerminates == OrchestrateRunning ~> OrchestrateEnded

\* The caller waits for the workers after a failure while a stage of the
\* level has not started yet.
C30_Witness ==
    /\ pc = "join_false"
    /\ \E w \in DOMAIN worker : worker[w].st = "pending"
    /\ \E w \in collected : worker[w].exc = "Exception"

====
